---- MODULE Spec2Model ----
(***************************************************************************)
(* Business-hours parser and evaluator of build_geojson.py:                *)
(*   _split_and_normalize_days, parse_time_ranges, build_schedule_fixed,   *)
(*   summarize_for_today and calc_open_now.                                *)
(*                                                                         *)
(* A Python str is modelled as a sequence of characters, each character a  *)
(* one-character TLA+ string.  The four non-ASCII dash characters of the   *)
(* source are written by their code point: "U+2013" (en dash), "U+2014"    *)
(* (em dash), "U+301C" (wave dash), "U+FF5E" (fullwidth tilde).            *)
(* An optional value is a sequence of length at most one: Python None is   *)
(* <<>> and a value x that may be None is <<x>>.  A weekday of the weekly  *)
(* schedule is the record Closed (the sentinel "closed") or a record       *)
(* holding a block list; dicts are functions over their keys.              *)
(***************************************************************************)
EXTENDS Integers, Sequences, FiniteSets, TLC

VARIABLES
    \* _split_and_normalize_days
    dn_pc, title, chunks, ci, weekday_days, special,
    \* parse_time_ranges
    tr_pc, dtl_text, text, ranges, los, idx, blocks,
    \* build_schedule_fixed
    sb_pc, hours_raw, notes_structured, ei, weekly, exceptions,
    \* to_feature: build_schedule_fixed, summarize_for_today, calc_open_now
    ev_pc, rec, ev_weekly, local_now, blocks_for_status, open_now

dnVars == <<dn_pc, title, chunks, ci, weekday_days, special>>
trVars == <<tr_pc, dtl_text, text, ranges, los, idx, blocks>>
sbVars == <<sb_pc, hours_raw, notes_structured, ei, weekly, exceptions>>
evVars == <<ev_pc, rec, ev_weekly, local_now, blocks_for_status, open_now>>
vars == <<dnVars, trVars, sbVars, evVars>>

None == <<>>
Some(x) == <<x>>

(***************************************************************************)
(* Python str and dict primitives.  A sequence built by a function         *)
(* constructor is concatenated with <<>>, which leaves it unchanged and    *)
(* makes TLC evaluate it once instead of at every indexing.                *)
(***************************************************************************)
Lower26 == <<"a","b","c","d","e","f","g","h","i","j","k","l","m",
             "n","o","p","q","r","s","t","u","v","w","x","y","z">>
Upper26 == <<"A","B","C","D","E","F","G","H","I","J","K","L","M",
             "N","O","P","Q","R","S","T","U","V","W","X","Y","Z">>
Digits10 == <<"0","1","2","3","4","5","6","7","8","9">>

UpperSet == {Upper26[i] : i \in 1..26}
AlphaSet == UpperSet \cup {Lower26[i] : i \in 1..26}
DigitSet == {Digits10[i] : i \in 1..10}
IsUpper(c) == c \in UpperSet
IsAlpha(c) == c \in AlphaSet
IsDigit(c) == c \in DigitSet
IsSpace(c) == c = " "

\* F applied to the value of e, as a local variable holding e
With(e, F(_)) == F(e)

Min(a, b) == IF a <= b THEN a ELSE b
Max(a, b) == IF a >= b THEN a ELSE b

\* str.lower()
LowerChar(c) == IF IsUpper(c) THEN Lower26[CHOOSE i \in 1..26 : Upper26[i] = c] ELSE c
str_lower(s) == [i \in 1..Len(s) |-> LowerChar(s[i])] \o <<>>

\* the least element of a non-empty set of integers
Least(S) == CHOOSE i \in S : \A j \in S : i <= j

\* str.strip(): from the first to the last non-blank character
str_strip(s) ==
    LET keep == {i \in 1..Len(s) : ~IsSpace(s[i])}
    IN  IF keep = {} THEN <<>>
        ELSE SubSeq(s, Least(keep), CHOOSE i \in keep : \A j \in keep : j <= i)

\* str.split(sep) for a one-character separator
RECURSIVE str_split(_, _)
str_split(s, sep) ==
    IF \E i \in 1..Len(s) : s[i] = sep
    THEN LET i == Least({j \in 1..Len(s) : s[j] = sep})
         IN  <<SubSeq(s, 1, i - 1)>> \o str_split(SubSeq(s, i + 1, Len(s)), sep)
    ELSE <<s>>

\* str.replace(old, new): leftmost non-overlapping occurrences
RECURSIVE str_replace(_, _, _)
str_replace(s, old, new) ==
    LET occ == {i \in 1..(Len(s) - Len(old) + 1) : SubSeq(s, i, i + Len(old) - 1) = old}
    IN  IF occ = {} THEN s
        ELSE SubSeq(s, 1, Least(occ) - 1) \o new
             \o str_replace(SubSeq(s, Least(occ) + Len(old), Len(s)), old, new)

\* old in s
str_contains(s, old) == \E i \in 1..(Len(s) - Len(old) + 1) : SubSeq(s, i, i + Len(old) - 1) = old

\* length of the maximal run of characters of a class starting at s[i]
AlphaRun(s, i) == IF i > Len(s) THEN 0
                  ELSE Least({j \in i..(Len(s) + 1) : j > Len(s) \/ ~IsAlpha(s[j])}) - i
SpaceRun(s, i) == IF i > Len(s) THEN 0
                  ELSE Least({j \in i..(Len(s) + 1) : j > Len(s) \/ ~IsSpace(s[j])}) - i

\* dict.get(k, default)
dict_get(d, k, default) == IF k \in DOMAIN d THEN d[k] ELSE default

\* int(s) of a digit string
RECURSIVE int(_)
int(s) == IF s = <<>> THEN 0
          ELSE 10 * int(SubSeq(s, 1, Len(s) - 1))
               + ((CHOOSE i \in 1..10 : Digits10[i] = s[Len(s)]) - 1)

(***************************************************************************)
(* Day tables                                                              *)
(***************************************************************************)
mon == <<"m","o","n">>
tue == <<"t","u","e">>
wed == <<"w","e","d">>
thu == <<"t","h","u">>
fri == <<"f","r","i">>
sat == <<"s","a","t">>
sun == <<"s","u","n">>
S_day == <<"d","a","y">>

DAY_ORDER == <<mon, tue, wed, thu, fri, sat, sun>>
Days == {DAY_ORDER[i] : i \in 1..7}

DAY_ALIASES ==
    (mon :> mon) @@ (mon \o S_day :> mon) @@
    (tue :> tue) @@ (tue \o <<"s">> \o S_day :> tue) @@
    (wed :> wed) @@ (wed \o <<"n","e","s">> \o S_day :> wed) @@
    (thu :> thu) @@ (thu \o <<"r","s">> \o S_day :> thu) @@
    (fri :> fri) @@ (fri \o S_day :> fri) @@
    (sat :> sat) @@ (sat \o <<"u","r">> \o S_day :> sat) @@
    (sun :> sun) @@ (sun \o S_day :> sun)

public_holiday == <<"p","u","b","l","i","c"," ","h","o","l","i","d","a","y">>
SPECIAL_KEYS ==
    (public_holiday :> "public_holiday") @@
    (<<"d","a","y"," ","b","e","f","o","r","e"," ">> \o public_holiday :> "day_before_public_holiday") @@
    (<<"d","a","y"," ","a","f","t","e","r"," ">> \o public_holiday :> "day_after_public_holiday")
SpecialTags == {SPECIAL_KEYS[k] : k \in DOMAIN SPECIAL_KEYS}

\* DAY_ORDER.index(d), 0-based
DayIndex(d) == (CHOOSE i \in 1..7 : DAY_ORDER[i] = d) - 1

(***************************************************************************)
(* _split_and_normalize_days                                               *)
(***************************************************************************)
\* re.match(r'([A-Za-z]{3,9})\s*-\s*([A-Za-z]{3,9})', key2): anchored at the
\* start only.  Group 1 is greedy over a run of letters and must be followed
\* by optional blanks and "-", so it matches only a leading run of 3..9
\* letters; group 2 takes up to 9 letters of the run after the blanks.
DayRangeMatch(key2) ==
    With(AlphaRun(key2, 1), LAMBDA n1 :
    With(1 + n1 + SpaceRun(key2, 1 + n1), LAMBDA p1 :
    With(p1 + 1 + SpaceRun(key2, p1 + 1), LAMBDA p2 :
    With(AlphaRun(key2, p2), LAMBDA n2 :
        IF n1 >= 3 /\ n1 <= 9 /\ p1 <= Len(key2) /\ key2[p1] = "-" /\ n2 >= 3
        THEN [matched |-> TRUE,
              g1 |-> SubSeq(key2, 1, n1),
              g2 |-> SubSeq(key2, p2, p2 + Min(n2, 9) - 1)]
        ELSE [matched |-> FALSE, g1 |-> <<>>, g2 |-> <<>>]))))

\* ExpandRange without the wrap across the week boundary
ExpandRange_NoWrap(ia, ib) == SubSeq(DAY_ORDER, ia + 1, ib + 1)

\* lines 135-137: the days of DAY_ORDER from index ia to index ib, wrapping
ExpandRange(ia, ib) ==
    IF ia <= ib THEN SubSeq(DAY_ORDER, ia + 1, ib + 1)
    ELSE SubSeq(DAY_ORDER, ia + 1, 7) \o SubSeq(DAY_ORDER, 1, ib + 1)

\* the body of the loop over chunks (lines 122-139) for one chunk c: the
\* weekdays it appends, the special flags it sets, the raw titles it adds
\* lines 128-129: key2
RangeKey(key) ==
    str_replace(str_replace(str_replace(key, <<" ","t","o"," ">>, <<"-">>),
                            <<"U+2013">>, <<"-">>), <<"U+2014">>, <<"-">>)

\* lines 132-133: DAY_ALIASES.get(a, a[:3])
AliasOrPrefix(g) == dict_get(DAY_ALIASES, g, SubSeq(g, 1, Min(3, Len(g))))

NormalizeChunk(c) ==
    With(str_lower(c), LAMBDA key :
        IF key \in DOMAIN DAY_ALIASES
        THEN [days |-> <<DAY_ALIASES[key]>>, flags |-> {}, raw |-> {}]
        ELSE IF key \in DOMAIN SPECIAL_KEYS
        THEN [days |-> <<>>, flags |-> {SPECIAL_KEYS[key]}, raw |-> {}]
        ELSE With(DayRangeMatch(RangeKey(key)), LAMBDA m :
             IF m.matched
             THEN With(AliasOrPrefix(m.g1), LAMBDA a :
                  With(AliasOrPrefix(m.g2), LAMBDA b :
                      IF a \in Days /\ b \in Days
                      THEN [days |-> ExpandRange(DayIndex(a), DayIndex(b)),
                            flags |-> {}, raw |-> {}]
                      ELSE [days |-> <<>>, flags |-> {}, raw |-> {}]))
             ELSE [days |-> <<>>, flags |-> {}, raw |-> {c}]))

\* line 118
SplitChunks(t) ==
    With(str_split(t, ","), LAMBDA parts : [i \in 1..Len(parts) |-> str_strip(parts[i])] \o <<>>)

EmptySpecial == [flags |-> {}, raw_titles |-> {}]

\* lines 124, 126, 136-137, 139: the updates of one chunk applied
AddChunk(acc, r) ==
    [days |-> acc.days \o r.days,
     special |-> [flags |-> acc.special.flags \cup r.flags,
                  raw_titles |-> acc.special.raw_titles \cup r.raw]]

\* the whole function: (weekday_days, special)
RECURSIVE NormalizeFrom(_, _, _)
NormalizeFrom(cs, i, acc) ==
    IF i > Len(cs) THEN acc
    ELSE NormalizeFrom(cs, i + 1, AddChunk(acc, NormalizeChunk(cs[i])))

_split_and_normalize_days(t) ==
    IF t = <<>> THEN [days |-> <<>>, special |-> EmptySpecial]
    ELSE NormalizeFrom(SplitChunks(t), 1, [days |-> <<>>, special |-> EmptySpecial])

(***************************************************************************)
(* parse_time_ranges                                                       *)
(***************************************************************************)
CharAt(s, p) == IF p >= 1 /\ p <= Len(s) THEN s[p] ELSE ""

\* re.sub(r'\s+', ' ', s): every run of blanks becomes one blank
RECURSIVE CollapseSpaces(_)
CollapseSpaces(s) ==
    With({i \in 1..(Len(s) - 1) : IsSpace(s[i]) /\ IsSpace(s[i + 1])}, LAMBDA runs :
        IF runs = {} THEN s
        ELSE With(Least(runs), LAMBDA i :
                 SubSeq(s, 1, i) \o CollapseSpaces(SubSeq(s, i + SpaceRun(s, i), Len(s)))))

\* the end (exclusive, 1-based) of a match of (?i)L\.?\s*\.?O\.? at p, or 0
LoWordEnd(s, p) ==
    IF LowerChar(CharAt(s, p)) # "l" THEN 0
    ELSE With(IF CharAt(s, p + 1) = "." THEN p + 2 ELSE p + 1, LAMBDA q1 :
         With(q1 + SpaceRun(s, q1), LAMBDA q2 :
         With(IF CharAt(s, q2) = "." THEN q2 + 1 ELSE q2, LAMBDA q3 :
             IF LowerChar(CharAt(s, q3)) # "o" THEN 0
             ELSE IF CharAt(s, q3 + 1) = "." THEN q3 + 2 ELSE q3 + 1)))

\* re.sub(r'(?i)L\.?\s*\.?O\.?', 'LO', s)
RECURSIVE SubLO(_, _)
SubLO(s, p) ==
    With({q \in p..Len(s) : LoWordEnd(s, q) > 0}, LAMBDA occ :
        IF occ = {} THEN SubSeq(s, p, Len(s))
        ELSE With(Least(occ), LAMBDA q :
                 SubSeq(s, p, q - 1) \o <<"L","O">> \o SubLO(s, LoWordEnd(s, q))))

\* lines 75-79
_norm(s) ==
    LET s1 == str_replace(s, <<"U+301C">>, <<"-">>)
        s2 == str_replace(s1, <<"U+2013">>, <<"-">>)
        s3 == str_replace(s2, <<"U+2014">>, <<"-">>)
        s4 == str_replace(s3, <<"U+FF5E">>, <<"-">>)
        s5 == str_replace(s4, <<"t","o">>, <<"-">>)
        s6 == CollapseSpaces(str_strip(s5))
    IN  SubLO(s6, 1)

\* the length of a match of \d{1,2}:\d{2} starting at p, or 0
TimeLen(s, p) ==
    IF IsDigit(CharAt(s, p)) /\ IsDigit(CharAt(s, p + 1)) /\ CharAt(s, p + 2) = ":"
       /\ IsDigit(CharAt(s, p + 3)) /\ IsDigit(CharAt(s, p + 4)) THEN 5
    ELSE IF IsDigit(CharAt(s, p)) /\ CharAt(s, p + 1) = ":"
            /\ IsDigit(CharAt(s, p + 2)) /\ IsDigit(CharAt(s, p + 3)) THEN 4
    ELSE 0

\* a match of RANGE_RE (line 72) starting at p
NoRange == [matched |-> FALSE, start |-> 0, end |-> 0, s |-> <<>>, e |-> <<>>]
RangeAt(s, p) ==
    With(TimeLen(s, p), LAMBDA n1 :
        IF n1 = 0 THEN NoRange
        ELSE With(p + n1 + SpaceRun(s, p + n1), LAMBDA q1 :
             With(q1 + 1 + SpaceRun(s, q1 + 1), LAMBDA q2 :
             With(TimeLen(s, q2), LAMBDA n2 :
                 IF CharAt(s, q1) \in {"-", "U+2013", "~"} /\ n2 > 0
                 THEN [matched |-> TRUE, start |-> p - 1, end |-> q2 + n2 - 1,
                       s |-> SubSeq(s, p, p + n1 - 1), e |-> SubSeq(s, q2, q2 + n2 - 1)]
                 ELSE NoRange))))

\* RANGE_RE.finditer(text) from 1-based position p: (start, end, s, e), 0-based
RECURSIVE FindRanges(_, _)
FindRanges(s, p) ==
    With({q \in p..Len(s) : RangeAt(s, q).matched}, LAMBDA occ :
        IF occ = {} THEN <<>>
        ELSE With(RangeAt(s, Least(occ)), LAMBDA m :
                 <<[start |-> m.start, end |-> m.end, s |-> m.s, e |-> m.e]>>
                 \o FindRanges(s, m.end + 1)))

\* RANGE_RE.search(text)
RangeSearch(s) == \E p \in 1..Len(s) : RangeAt(s, p).matched

W_food == <<"f","o","o","d">>
W_drink == <<"d","r","i","n","k">>
\* the alternatives (Food|Foods?|Drink|Drinks?) in the order the regex tries them
LoKindWords == <<W_food, W_food \o <<"s">>, W_drink, W_drink \o <<"s">>>>

\* a match of LO_RE (line 73) starting at p; kind is m.group(1).lower() or None
NoLo == [matched |-> FALSE, pos |-> 0, end |-> 0, kind |-> None, t |-> <<>>]

\* the qualifier word w, then blanks, then a time, at q
KindAt(s, q, w) ==
    /\ q + Len(w) - 1 <= Len(s)
    /\ str_lower(SubSeq(s, q, q + Len(w) - 1)) = w
    /\ TimeLen(s, q + Len(w) + SpaceRun(s, q + Len(w))) > 0

\* the rest of LO_RE at q, after "L.O." and blanks: the optional qualifier
\* (the first alternative that lets the time match), then the time
LoTail(s, p, q) ==
    With({i \in 1..4 : KindAt(s, q, LoKindWords[i])}, LAMBDA ks :
    With(IF ks = {} THEN 0 ELSE Len(LoKindWords[Least(ks)]), LAMBDA n :
    With(IF ks = {} THEN q ELSE q + n + SpaceRun(s, q + n), LAMBDA tp :
    With(TimeLen(s, tp), LAMBDA tn :
        IF tn = 0 THEN NoLo
        ELSE [matched |-> TRUE, pos |-> p - 1, end |-> tp + tn - 1,
              kind |-> IF ks = {} THEN None ELSE Some(str_lower(SubSeq(s, q, q + n - 1))),
              t |-> SubSeq(s, tp, tp + tn - 1)]))))

LoAt(s, p) ==
    IF LowerChar(CharAt(s, p)) # "l" THEN NoLo
    ELSE With(IF CharAt(s, p + 1) = "." THEN p + 2 ELSE p + 1, LAMBDA q1 :
         With(q1 + SpaceRun(s, q1), LAMBDA q2 :
             IF LowerChar(CharAt(s, q2)) # "o" THEN NoLo
             ELSE With(IF CharAt(s, q2 + 1) = "." THEN q2 + 2 ELSE q2 + 1, LAMBDA q3 :
                      LoTail(s, p, q3 + SpaceRun(s, q3)))))

\* LO_RE.finditer(text) from 1-based position p: (pos, kind, time)
RECURSIVE FindLos(_, _)
FindLos(s, p) ==
    With({q \in p..Len(s) : LoAt(s, q).matched}, LAMBDA occ :
        IF occ = {} THEN <<>>
        ELSE With(LoAt(s, Least(occ)), LAMBDA m :
                 <<[pos |-> m.pos, kind |-> m.kind, t |-> m.t]>> \o FindLos(s, m.end + 1)))

\* lines 81-84
_to_minutes(t) ==
    With(str_split(t, ":"), LAMBDA hm :
    With(int(hm[1]), LAMBDA h :
        (IF h = 24 THEN 0 ELSE h) * 60 + int(hm[2])))

\* lines 86-87
_crosses_midnight(s, e) == _to_minutes(e) <= _to_minutes(s)

\* lines 104-109: the key of block["last_order"] a marker of lo_kind writes
LoKey(lo_kind) ==
    IF lo_kind = None THEN "generic"
    ELSE IF str_contains(lo_kind[1], W_drink) THEN "drinks"
    ELSE "food"

\* InLoWindow without the upper end of the window
InLoWindow_NoUpper(rs, lo_pos, next_range_start) == rs <= lo_pos

\* line 103: the marker at lo_pos belongs to the range starting at rs
InLoWindow(rs, lo_pos, next_range_start) == rs <= lo_pos /\ lo_pos < next_range_start

\* d[k] = v
SetKey(d, k, v) == [x \in (DOMAIN d) \cup {k} |-> IF x = k THEN v ELSE d[x]]

\* lines 102-109: the markers of los[i..] written into last_order lo, in order
RECURSIVE LastOrderFrom(_, _, _, _, _)
LastOrderFrom(lo_list, i, rs, next_range_start, lo) ==
    IF i > Len(lo_list) THEN lo
    ELSE LastOrderFrom(lo_list, i + 1, rs, next_range_start,
             IF InLoWindow(rs, lo_list[i].pos, next_range_start)
             THEN SetKey(lo, LoKey(lo_list[i].kind), lo_list[i].t)
             ELSE lo)

\* lines 96-112: the block of ranges[i] (i is 1-based); Len(txt) stands for
\* float('inf'), every position being smaller
BlockOf(rng, lo_list, i, txt) ==
    With(IF i + 1 <= Len(rng) THEN rng[i + 1].start ELSE Len(txt), LAMBDA next_range_start :
    With(LastOrderFrom(lo_list, 1, rng[i].start, next_range_start, <<>>), LAMBDA lo :
        [open |-> rng[i].s, close |-> rng[i].e,
         crosses_midnight |-> _crosses_midnight(rng[i].s, rng[i].e),
         last_order |-> IF DOMAIN lo = {} THEN None ELSE Some(lo)]))

\* the whole function
BlocksOf(rng, lo_list, txt) == [i \in 1..Len(rng) |-> BlockOf(rng, lo_list, i, txt)] \o <<>>
parse_time_ranges(d) ==
    With(_norm(d), LAMBDA txt : BlocksOf(FindRanges(txt, 1), FindLos(txt, 1), txt))

(***************************************************************************)
(* build_schedule_fixed                                                    *)
(***************************************************************************)
\* the characters of the model in code-point order, for sorted() of strings
CharOrder == <<" ", "(", ")", ",", "-", ".", "/">> \o Digits10 \o <<":">>
             \o Upper26 \o Lower26 \o <<"~", "U+2013", "U+2014", "U+301C", "U+FF5E">>
Ord(c) == CHOOSE i \in 1..Len(CharOrder) : CharOrder[i] = c

\* a < b for Python strings
StrLess(a, b) ==
    \E k \in 1..(Min(Len(a), Len(b)) + 1) :
        /\ SubSeq(a, 1, k - 1) = SubSeq(b, 1, k - 1)
        /\ \/ k > Len(a) /\ k <= Len(b)
           \/ k <= Len(a) /\ k <= Len(b) /\ Ord(a[k]) < Ord(b[k])

\* sorted(list(S)) of a set of strings
sorted(S) == [k \in 1..Cardinality(S) |->
                 CHOOSE x \in S : Cardinality({y \in S : StrLess(y, x)}) = k - 1] \o <<>>

\* a weekday of weekly: the sentinel "closed", or a block list
Closed == [closed |-> TRUE, blocks |-> <<>>]
DayBlocks(bs) == [closed |-> FALSE, blocks |-> bs]

S_closed == <<"c","l","o","s","e","d">>

\* lines 277-278
ExplicitClosed(dtl) ==
    With(str_lower(str_strip(dtl)), LAMBDA dtl_lower :
        \/ dtl_lower = S_closed
        \/ str_contains(dtl_lower, S_closed) /\ ~RangeSearch(dtl_lower))

\* line 280: for day in days: weekly[day] = "closed"
CloseDays(w, days) ==
    [d \in Days |-> IF \E i \in 1..Len(days) : days[i] = d THEN Closed ELSE w[d]]

\* ExtendDay without the test of the day's current state
ExtendDay_Reopens(w, d, bs) == [w EXCEPT ![d] = DayBlocks(w[d].blocks \o bs)]

\* lines 284-285: one iteration of the loop over days
ExtendDay(w, d, bs) ==
    IF w[d] # Closed THEN [w EXCEPT ![d] = DayBlocks(w[d].blocks \o bs)] ELSE w

\* lines 283-285
RECURSIVE ExtendDays(_, _, _, _)
ExtendDays(w, days, i, bs) ==
    IF i > Len(days) THEN w ELSE ExtendDays(ExtendDay(w, days[i], bs), days, i + 1, bs)

\* lines 286-287
ExtendPolicies(exc, spc) ==
    IF spc.raw_titles # {}
    THEN [exc EXCEPT !["policies"] = @ \o sorted(spc.raw_titles)]
    ELSE exc

\* ExtendSpecials that leaves the exception lists alone
ExtendSpecials_Skip(exc, spc, bs) == exc

\* lines 288-289: exceptions.setdefault(sk, []).extend(blocks) for each flag
ExtendSpecials(exc, spc, bs) ==
    [k \in (DOMAIN exc) \cup spc.flags |->
        IF k \in spc.flags
        THEN (IF k \in DOMAIN exc THEN exc[k] ELSE <<>>) \o bs
        ELSE exc[k]]

\* lines 274-289: the body of the loop over entries
ProcessEntry(st, entry) ==
    With(_split_and_normalize_days(entry.title), LAMBDA n :
        IF ExplicitClosed(entry.dtl)
        THEN [weekly |-> CloseDays(st.weekly, n.days), exceptions |-> st.exceptions]
        ELSE With(parse_time_ranges(entry.dtl), LAMBDA bs :
                 [weekly |-> ExtendDays(st.weekly, n.days, 1, bs),
                  exceptions |-> ExtendSpecials(ExtendPolicies(st.exceptions, n.special),
                                                n.special, bs)]))

\* lines 290-292
ApplyNotes(exc, notes) ==
    IF notes # None /\ notes[1].closed_on # None /\ notes[1].closed_on[1] # <<>>
    THEN [exc EXCEPT !["policies"] = Append(@, notes[1].closed_on[1])]
    ELSE exc

\* lines 270-271
EmptySchedule == [weekly |-> [d \in Days |-> DayBlocks(<<>>)],
                  exceptions |-> [policies |-> <<>>]]

RECURSIVE ProcessEntries(_, _, _)
ProcessEntries(st, hr, i) ==
    IF i > Len(hr) THEN st ELSE ProcessEntries(ProcessEntry(st, hr[i]), hr, i + 1)

\* the whole function: (weekly, exceptions)
build_schedule_fixed(hr, notes) ==
    IF hr = <<>> THEN EmptySchedule
    ELSE With(ProcessEntries(EmptySchedule, hr, 1), LAMBDA st :
             [weekly |-> st.weekly, exceptions |-> ApplyNotes(st.exceptions, notes)])

(***************************************************************************)
(* calc_open_now and summarize_for_today                                   *)
(***************************************************************************)
\* b.get("carried_from_prev")
IsCarried(b) == "carried_from_prev" \in DOMAIN b /\ b.carried_from_prev

\* lines 197-201: in_window
InWindow(b, now) ==
    With(_to_minutes(b.open), LAMBDA start :
    With(_to_minutes(b.close), LAMBDA end :
        IF ~b.crosses_midnight THEN start <= now /\ now < end
        ELSE now >= start \/ now < end))

\* ClosesIn without the full day added before midnight
ClosesIn_NoWrap(b, now) == _to_minutes(b.close) - now

\* lines 199, 202: closes_in of a block whose window contains now
ClosesIn(b, now) ==
    With(_to_minutes(b.open), LAMBDA start :
    With(_to_minutes(b.close), LAMBDA end :
        IF ~b.crosses_midnight THEN end - now
        ELSE IF now >= start THEN (24 * 60 - now) + end ELSE end - now))

\* lines 206-211: min(lo_times) over the keys present, in a set
LoTimes(lo) == {_to_minutes(lo[k]) : k \in (DOMAIN lo) \cap {"generic", "food", "drinks"}}

\* lines 204-218: lo_in of a block whose window contains now
LoIn(b, now) ==
    IF b.last_order = None \/ LoTimes(b.last_order[1]) = {} THEN None
    ELSE With(_to_minutes(b.open), LAMBDA start :
         With(_to_minutes(b.close), LAMBDA end :
         With(Least(LoTimes(b.last_order[1])), LAMBDA lo_t :
             IF ~b.crosses_midnight
             THEN (IF now <= lo_t /\ lo_t <= end THEN Some(Max(lo_t - now, 0)) ELSE None)
             ELSE IF now >= start
             THEN (IF lo_t >= start THEN Some(Max(lo_t - now, 0))
                   ELSE Some((24 * 60 - now) + lo_t))
             ELSE (IF lo_t >= now THEN Some(Max(lo_t - now, 0)) ELSE None))))

\* lines 194-223: the index of the block the scan returns on, 0 when none
FirstOpen(bs, now) ==
    With({i \in 1..Len(bs) : InWindow(bs[i], now)}, LAMBDA hit :
        IF hit = {} THEN 0 ELSE Least(hit))

\* lines 224-230: first_future
FirstFuture(bs, now) ==
    With({i \in 1..Len(bs) : ~IsCarried(bs[i]) /\ _to_minutes(bs[i].open) > now}, LAMBDA fut :
        IF fut = {} THEN None ELSE Some(_to_minutes(bs[Least(fut)].open) - now))

\* lines 190-231; blocks_for_day is Closed or DayBlocks(list)
\* lines 219-223: the result for the block b the scan returns on
OpenResult(b, now) ==
    [status |-> "open",
     segment |-> [start |-> b.open, end |-> b.close, last_order |-> b.last_order],
     closes_in_min |-> Some(ClosesIn(b, now)),
     lo_in_min |-> LoIn(b, now),
     crosses_midnight |-> b.crosses_midnight]

\* lines 193-231
ScanBlocks(bs, now) ==
    With(FirstOpen(bs, now), LAMBDA i :
        IF i > 0 THEN OpenResult(bs[i], now)
        ELSE [status |-> "closed", opens_in_min |-> FirstFuture(bs, now)])

calc_open_now(blocks_for_day, now_local) ==
    IF blocks_for_day = Closed \/ blocks_for_day.blocks = <<>> THEN [status |-> "closed"]
    ELSE ScanBlocks(blocks_for_day.blocks, now_local.hour * 60 + now_local.minute)

\* open_now.get(key)
result_get(r, key) == IF key \in DOMAIN r THEN r[key] ELSE None

\* lines 303-307: the crossing blocks of the previous day, flagged
\* lines 305-306: dict(b) with carried_from_prev set
Carried(b) ==
    [open |-> b.open, close |-> b.close, crosses_midnight |-> b.crosses_midnight,
     last_order |-> b.last_order, carried_from_prev |-> TRUE]

CarriedBlocks(prev_blocks) ==
    LET cross == {i \in 1..Len(prev_blocks) : prev_blocks[i].crosses_midnight}
        Nth(k) == CHOOSE i \in cross : Cardinality({j \in cross : j <= i}) = k
    IN  [k \in 1..Cardinality(cross) |-> Carried(prev_blocks[Nth(k)])] \o <<>>

\* BlocksForStatus with the carried blocks put first
BlocksForStatus_CarriedFirst(w, lnow) ==
    LET dow == DAY_ORDER[lnow.weekday + 1]
        prev_dow == DAY_ORDER[((lnow.weekday - 1) % 7) + 1]
    IN  CarriedBlocks(IF w[prev_dow].closed THEN <<>> ELSE w[prev_dow].blocks)
        \o (IF w[dow].closed \/ w[dow].blocks = <<>> THEN <<>> ELSE w[dow].blocks)

\* lines 296-307: blocks_for_status
BlocksForStatus(w, lnow) ==
    LET dow == DAY_ORDER[lnow.weekday + 1]
        prev_dow == DAY_ORDER[((lnow.weekday - 1) % 7) + 1]
    IN  (IF w[dow].closed \/ w[dow].blocks = <<>> THEN <<>> ELSE w[dow].blocks)
        \o CarriedBlocks(IF w[prev_dow].closed THEN <<>> ELSE w[prev_dow].blocks)

\* line 309: calc_open_now(blocks_for_status or "closed", local_now)
summarize_for_today(w, lnow) ==
    With(BlocksForStatus(w, lnow), LAMBDA bfs :
        calc_open_now(IF bfs = <<>> THEN Closed ELSE DayBlocks(bfs), lnow))

(***************************************************************************)
(* Inputs of the day-title normalizer                                      *)
(***************************************************************************)
Cap(s) == IF s = <<>> THEN s
          ELSE <<IF \E i \in 1..26 : Lower26[i] = s[1]
                 THEN Upper26[CHOOSE i \in 1..26 : Lower26[i] = s[1]] ELSE s[1]>> \o Tail(s)

\* "Mon", "Monday", ..., "Sun", "Sunday"
TitleDayTokens == {Cap(k) : k \in DOMAIN DAY_ALIASES}
\* the range separators of the input vocabulary
TitleSeps == {<<"-">>, <<" ","-"," ">>, <<" ","t","o"," ">>, <<"U+2013">>, <<"U+2014">>}
RangeTitles == {a \o sep \o b : a \in TitleDayTokens, sep \in TitleSeps, b \in TitleDayTokens}

T_Irregular == <<"I","r","r","e","g","u","l","a","r">>
T_FooBar == <<"F","o","o","-","B","a","r">>
T_MonFriExcept == <<"M","o","n","-","F","r","i"," ","e","x","c","e","p","t"," ","h","o","l","i","d","a","y","s">>
T_PublicHoliday == <<"P","u","b","l","i","c"," ","H","o","l","i","d","a","y">>
OtherTitles == {
    <<>>,
    <<"M","o","n">>,
    <<"M","o","n",","," ","W","e","d","-","F","r","i">>,
    T_PublicHoliday,
    <<"D","a","y"," ","b","e","f","o","r","e"," ">> \o T_PublicHoliday,
    <<"D","a","y"," ","a","f","t","e","r"," ">> \o T_PublicHoliday,
    T_Irregular,
    T_FooBar,
    T_MonFriExcept,
    <<"M","o","n","-","F","r">>,
    <<"M","o","n","-","F","u","n","d","a","y">>,
    <<"W","e","d","n","e","s","d","a","y","s","-","F","r","i">>,
    <<"S","a","t","-","M","o","n",","," ">> \o T_Irregular \o <<","," ">> \o T_PublicHoliday,
    T_Irregular \o <<",">> \o T_Irregular \o <<",","M","o","n","d","a","y">>,
    <<"M","o","n",",",","," ","T","u","e">>
}
Titles == RangeTitles \cup OtherTitles

(***************************************************************************)
(* State machine of _split_and_normalize_days: one step per chunk          *)
(***************************************************************************)
\* lines 116-120
DN_Call(t) ==
    /\ dn_pc = "idle"
    /\ title' = t
    /\ weekday_days' = <<>>
    /\ special' = EmptySpecial
    /\ IF t = <<>>
       THEN dn_pc' = "returned" /\ chunks' = <<>> /\ ci' = 0
       ELSE dn_pc' = "loop" /\ chunks' = SplitChunks(t) /\ ci' = 1
    /\ UNCHANGED <<trVars, sbVars, evVars>>

\* lines 121-139, one iteration
DN_Chunk ==
    /\ dn_pc = "loop"
    /\ ci <= Len(chunks)
    /\ \E acc \in {AddChunk([days |-> weekday_days, special |-> special],
                              NormalizeChunk(chunks[ci]))} :
           weekday_days' = acc.days /\ special' = acc.special
    /\ ci' = ci + 1
    /\ UNCHANGED <<dn_pc, title, chunks>>
    /\ UNCHANGED <<trVars, sbVars, evVars>>

\* line 140
DN_Return ==
    /\ dn_pc = "loop"
    /\ ci > Len(chunks)
    /\ dn_pc' = "returned"
    /\ UNCHANGED <<title, chunks, ci, weekday_days, special>>
    /\ UNCHANGED <<trVars, sbVars, evVars>>

NextDays ==
    \/ dn_pc = "idle" /\ \E t \in Titles : DN_Call(t)
    \/ DN_Chunk
    \/ DN_Return

(***************************************************************************)
(* Inputs of the time-range extractor                                      *)
(***************************************************************************)
DigitStr(n) == IF n < 10 THEN <<Digits10[n + 1]>>
               ELSE <<Digits10[(n \div 10) + 1], Digits10[(n % 10) + 1]>>
\* "H:MM"
HM(h, m) == DigitStr(h) \o <<":">> \o <<Digits10[(m \div 10) + 1], Digits10[(m % 10) + 1]>>

ParseHours == {0, 2, 11, 17, 23, 24, 26}
ParseMinutes == {0, 30}
ParseTimes == {HM(h, m) : h \in ParseHours, m \in ParseMinutes}
DetailSeps == {<<"-">>, <<" ","-"," ">>, <<"~">>, <<"U+301C">>, <<" ","t","o"," ">>}
SingleRangeDetails == {s \o sep \o e : s \in ParseTimes, sep \in DetailSeps, e \in ParseTimes}

D_Closed == <<"C","l","o","s","e","d">>
D_Lunch == <<"1","1",":","3","0","-","1","4",":","0","0">>
D_Dinner == <<"1","7",":","3","0","-","2","2",":","0","0">>
LoPhrases == {
    <<>>,
    <<" ","(","L","O"," ","1","3",":","3","0",")">>,
    <<" ","(","L","O"," ","F","o","o","d"," ","2","1",":","0","0"," ","/"," ","L","O"," ","D","r","i","n","k"," ","2","1",":","3","0",")">>,
    <<" ","L",".","O",".","2","0",":","0","0"," ","L","O"," ","2","0",":","3","0">>,
    <<" ","l"," ","o"," ","d","r","i","n","k","s"," ","1",":","0","0"," ","L",".","O",".","F","o","o","d","s","0",":","3","0">>
}
LoPrefixes == {<<>>, <<"L","O"," ","1","0",":","0","0"," ">>}
LoDetails == {pre \o D_Lunch \o lo1 \o <<" ">> \o D_Dinner \o lo2 :
                  pre \in LoPrefixes, lo1 \in LoPhrases, lo2 \in LoPhrases}
OtherDetails == {
    <<>>,
    D_Closed,
    D_Closed \o <<" ","o","n"," ","h","o","l","i","d","a","y","s">>,
    <<"H","e","l","l","o"," ">> \o D_Lunch,
    <<"1","1","1",":","0","0","-","1","4",":","0","0","0">>,
    <<"2","3",":","7","5","-","9","9",":","9","9">>,
    D_Dinner \o <<","," ">> \o D_Lunch \o <<","," ">> \o D_Lunch
}
Details == SingleRangeDetails \cup LoDetails \cup OtherDetails

(***************************************************************************)
(* State machine of parse_time_ranges: one step per range                  *)
(***************************************************************************)
\* lines 90-95
TR_Call(d) ==
    /\ tr_pc = "idle"
    /\ dtl_text' = d
    /\ text' = _norm(d)
    /\ ranges' = FindRanges(text', 1)
    /\ los' = FindLos(text', 1)
    /\ blocks' = <<>>
    /\ idx' = 0
    /\ tr_pc' = "loop"
    /\ UNCHANGED <<dnVars, sbVars, evVars>>

\* lines 96-112, one iteration
TR_Block ==
    /\ tr_pc = "loop"
    /\ idx < Len(ranges)
    /\ blocks' = Append(blocks, BlockOf(ranges, los, idx + 1, text))
    /\ idx' = idx + 1
    /\ UNCHANGED <<tr_pc, dtl_text, text, ranges, los>>
    /\ UNCHANGED <<dnVars, sbVars, evVars>>

\* line 113
TR_Return ==
    /\ tr_pc = "loop"
    /\ idx >= Len(ranges)
    /\ tr_pc' = "returned"
    /\ UNCHANGED <<dtl_text, text, ranges, los, idx, blocks>>
    /\ UNCHANGED <<dnVars, sbVars, evVars>>

NextParse ==
    \/ tr_pc = "idle" /\ \E d \in Details : TR_Call(d)
    \/ TR_Block
    \/ TR_Return

(***************************************************************************)
(* Inputs of the schedule builder                                          *)
(***************************************************************************)
T_Mon == <<"M","o","n">>
T_Sun == <<"S","u","n">>
D_Late == <<"2","2",":","0","0","-","2",":","0","0"," ","L",".","O","."," ","1",":","0","0">>
T_Holidays == T_PublicHoliday \o <<","," ","D","a","y"," ","b","e","f","o","r","e"," ">> \o T_PublicHoliday
BuildTitles == {
    T_Mon,
    T_Holidays,
    <<"S","u","n","-","M","o","n">>,
    T_Irregular,
    <<"T","u","e",","," ">> \o T_PublicHoliday \o <<","," ">> \o T_Irregular
}
BuildDetails == {
    D_Closed,
    D_Lunch,
    D_Late,
    D_Closed \o <<" ">> \o T_Mon \o <<" ">> \o D_Lunch
}
Entries == [title : BuildTitles, dtl : BuildDetails]
MaxEntries == 2
HoursRaw == UNION {[1..n -> Entries] : n \in 0..MaxEntries}
Notes == {None, Some([closed_on |-> None]), Some([closed_on |-> Some(T_Irregular)])}

(***************************************************************************)
(* State machine of build_schedule_fixed: one step per entry               *)
(***************************************************************************)
\* lines 270-272
SB_Call(hr, notes) ==
    /\ sb_pc = "idle"
    /\ hours_raw' = hr
    /\ notes_structured' = notes
    /\ weekly' = EmptySchedule.weekly
    /\ exceptions' = EmptySchedule.exceptions
    /\ IF hr = <<>>
       THEN sb_pc' = "returned" /\ ei' = 0
       ELSE sb_pc' = "loop" /\ ei' = 1
    /\ UNCHANGED <<dnVars, trVars, evVars>>

\* lines 273-289, one iteration
SB_Entry ==
    /\ sb_pc = "loop"
    /\ ei <= Len(hours_raw)
    /\ \E st \in {ProcessEntry([weekly |-> weekly, exceptions |-> exceptions],
                                hours_raw[ei])} :
           weekly' = st.weekly /\ exceptions' = st.exceptions
    /\ ei' = ei + 1
    /\ UNCHANGED <<sb_pc, hours_raw, notes_structured>>
    /\ UNCHANGED <<dnVars, trVars, evVars>>

\* lines 290-293
SB_Return ==
    /\ sb_pc = "loop"
    /\ ei > Len(hours_raw)
    /\ exceptions' = ApplyNotes(exceptions, notes_structured)
    /\ sb_pc' = "returned"
    /\ UNCHANGED <<hours_raw, notes_structured, ei, weekly>>
    /\ UNCHANGED <<dnVars, trVars, evVars>>

NextBuild ==
    \/ sb_pc = "idle" /\ \E hr \in HoursRaw, notes \in Notes : SB_Call(hr, notes)
    \/ SB_Entry
    \/ SB_Return

(***************************************************************************)
(* Inputs of the evaluator                                                 *)
(***************************************************************************)
EvalTimes == {HM(0, 0), HM(1, 0), HM(2, 0), HM(10, 0), HM(22, 0), HM(23, 30), HM(24, 0)}
S_LO == <<" ","L","O"," ">>
EvalRangeDetails == {s \o <<"-">> \o e : s \in EvalTimes, e \in EvalTimes}
EvalLoDetails == {r \o S_LO \o t : r \in EvalRangeDetails, t \in EvalTimes}
D_Evening == <<"1","7",":","0","0","-","2","2",":","0","0">>
D_Day == <<"1","1",":","0","0","-","1","4",":","0","0">>
EvalOtherDetails == {
    <<>>,
    D_Closed,
    D_Evening \o <<","," ">> \o D_Day,
    D_Day \o <<" ">> \o D_Evening,
    <<"1","0",":","0","0","-","2","3",":","0","0",","," ","2","2",":","0","0","-","2",":","0","0">>,
    <<"2","2",":","0","0","-","2",":","0","0",","," ","1","0",":","0","0","-","2","3",":","3","0">>,
    <<"1","7",":","0","0","-","2","6",":","0","0">>,
    D_Evening \o <<" ","L","O"," ","F","o","o","d"," ","2","1",":","0","0"," ","L","O"," ","D","r","i","n","k"," ","2","1",":","3","0">>,
    <<"1","8",":","0","0","-","2",":","0","0"," ","L","O"," ","F","o","o","d"," ","1",":","0","0"," ","L","O"," ","D","r","i","n","k"," ","2","3",":","3","0">>
}
EvalTodayDetails == EvalRangeDetails \cup EvalLoDetails \cup EvalOtherDetails
EvalPrevDetails == {
    <<>>,
    D_Closed,
    D_Day,
    <<"2","2",":","0","0","-","2",":","0","0">>,
    <<"1","8",":","0","0","-","1",":","0","0"," ","(","L","O"," ","0",":","3","0",")">>
}
\* the records of to_feature: Monday's entry, then Sunday's
EvalHoursRaw == {<<[title |-> T_Mon, dtl |-> d1], [title |-> T_Sun, dtl |-> d2]>> :
                     d1 \in EvalTodayDetails, d2 \in EvalPrevDetails}
EvalClock == {<<0, 0>>, <<0, 30>>, <<1, 0>>, <<1, 59>>, <<2, 0>>, <<9, 0>>, <<10, 0>>,
              <<13, 30>>, <<21, 15>>, <<22, 0>>, <<23, 0>>, <<23, 30>>, <<23, 59>>}
\* datetime.now(tz) on a Monday
EvalNows == {[weekday |-> 0, hour |-> c[1], minute |-> c[2]] : c \in EvalClock}

(***************************************************************************)
(* State machine of to_feature: build, summarize_for_today, calc_open_now  *)
(***************************************************************************)
\* line 377
EV_Build(hr) ==
    /\ ev_pc = "idle"
    /\ rec' = hr
    /\ ev_weekly' = build_schedule_fixed(hr, None).weekly
    /\ ev_pc' = "built"
    /\ UNCHANGED <<local_now, blocks_for_status, open_now>>
    /\ UNCHANGED <<dnVars, trVars, sbVars>>

\* lines 378, 296-307
EV_Summarize(n) ==
    /\ ev_pc = "built"
    /\ local_now' = n
    /\ blocks_for_status' = BlocksForStatus(ev_weekly, n)
    /\ ev_pc' = "summarize"
    /\ UNCHANGED <<rec, ev_weekly, open_now>>
    /\ UNCHANGED <<dnVars, trVars, sbVars>>

\* lines 309, 190-231
EV_CalcOpenNow ==
    /\ ev_pc = "summarize"
    /\ open_now' = calc_open_now(IF blocks_for_status = <<>> THEN Closed
                                 ELSE DayBlocks(blocks_for_status), local_now)
    /\ ev_pc' = "returned"
    /\ UNCHANGED <<rec, ev_weekly, local_now, blocks_for_status>>
    /\ UNCHANGED <<dnVars, trVars, sbVars>>

NextEval ==
    \/ ev_pc = "idle" /\ \E hr \in EvalHoursRaw : EV_Build(hr)
    \/ ev_pc = "built" /\ \E n \in EvalNows : EV_Summarize(n)
    \/ EV_CalcOpenNow

(***************************************************************************)
(* Initial state and specifications                                        *)
(***************************************************************************)
Init ==
    /\ dn_pc = "idle" /\ title = <<>> /\ chunks = <<>> /\ ci = 0
    /\ weekday_days = <<>> /\ special = EmptySpecial
    /\ tr_pc = "idle" /\ dtl_text = <<>> /\ text = <<>> /\ ranges = <<>> /\ los = <<>>
    /\ idx = 0 /\ blocks = <<>>
    /\ sb_pc = "idle" /\ hours_raw = <<>> /\ notes_structured = None
    /\ ei = 0 /\ weekly = EmptySchedule.weekly /\ exceptions = EmptySchedule.exceptions
    /\ ev_pc = "idle" /\ rec = <<>> /\ ev_weekly = EmptySchedule.weekly
    /\ local_now = [weekday |-> 0, hour |-> 0, minute |-> 0]
    /\ blocks_for_status = <<>> /\ open_now = [status |-> "closed"]

SpecDays == Init /\ [][NextDays]_vars
SpecParse == Init /\ [][NextParse]_vars
SpecBuild == Init /\ [][NextBuild]_vars
SpecEval == Init /\ [][NextEval]_vars

(***************************************************************************)
(* Properties                                                              *)
(***************************************************************************)
MinutesPerDay == 1440
MinuteOfDay == 0..(MinutesPerDay - 1)
NowOf(n) == n.hour * 60 + n.minute
\* the weekdays a title resolves to
TitleDays(t) ==
    With(_split_and_normalize_days(t).days, LAMBDA ds : {ds[i] : i \in 1..Len(ds)})
\* minutes on the wall clock from now forward to time c, a full day when equal
ForwardDistance(now, c) == ((c - now - 1) % MinutesPerDay) + 1
\* section 4.4: now falls inside the open window of block b
Contains(b, now) ==
    IF _to_minutes(b.close) <= _to_minutes(b.open)
    THEN now >= _to_minutes(b.open) \/ now < _to_minutes(b.close)
    ELSE _to_minutes(b.open) <= now /\ now < _to_minutes(b.close)

\* C1: Closed is absorbing per weekday: once an explicit-closed entry of the
\* list has named weekday d, d is Closed after that entry and after every
\* later entry of the list, whatever days and ranges the later entries carry.
C1_ClosedIsAbsorbing ==
    \A j \in 1..Len(hours_raw) :
        (j < ei /\ ExplicitClosed(hours_raw[j].dtl))
            => \A d \in TitleDays(hours_raw[j].title) : weekly[d] = Closed

\* an explicit-closed entry for d, then a later entry with blocks for d
C1_Witness ==
    /\ sb_pc = "returned"
    /\ \E j, k \in 1..Len(hours_raw) : \E d \in Days :
        /\ j < k
        /\ ExplicitClosed(hours_raw[j].dtl) /\ d \in TitleDays(hours_raw[j].title)
        /\ ~ExplicitClosed(hours_raw[k].dtl) /\ d \in TitleDays(hours_raw[k].title)
        /\ parse_time_ranges(hours_raw[k].dtl) # <<>>
        /\ weekly[d] = Closed

\* C2: when the status is open for a block whose open and close are minutes
\* of the day, closes_in_min is the forward wall-clock distance from now to
\* close: between 1 and 1440, (now + closes_in_min) mod 1440 = close, equal to
\* (1440 - now) + close for a crossing block with now >= open and to
\* close - now otherwise.
C2_ClosesInIsForwardDistance ==
    (ev_pc = "returned" /\ open_now.status = "open") =>
        LET o == _to_minutes(open_now.segment.start)
            c == _to_minutes(open_now.segment.end)
            now == NowOf(local_now)
        IN  (o \in MinuteOfDay /\ c \in MinuteOfDay) =>
                /\ open_now.closes_in_min # None
                /\ open_now.closes_in_min[1] >= 1
                /\ open_now.closes_in_min[1] <= MinutesPerDay
                /\ (now + open_now.closes_in_min[1]) % MinutesPerDay = c
                /\ open_now.closes_in_min[1] =
                       IF c <= o /\ now >= o THEN (MinutesPerDay - now) + c ELSE c - now

\* 22:00-2:00 at 23:00 gives 180 and at 1:00 gives 60
C2_Witness ==
    /\ ev_pc = "returned" /\ open_now.status = "open"
    /\ open_now.segment.start = HM(22, 0) /\ open_now.segment.end = HM(2, 0)
    /\ \/ NowOf(local_now) = 23 * 60 /\ open_now.closes_in_min = Some(180)
       \/ NowOf(local_now) = 60 /\ open_now.closes_in_min = Some(60)

\* C3: when no block contains now, opens_in_min is the minimum of open - now
\* over the non-carried blocks of the scanned list whose open is later than
\* now, whatever their order, and null when there is none.
C3_OpensInIsMinimum ==
    (ev_pc = "returned" /\ open_now.status = "closed") =>
        LET now == NowOf(local_now)
            fut == {_to_minutes(blocks_for_status[i].open) - now :
                        i \in {k \in 1..Len(blocks_for_status) :
                                  /\ ~IsCarried(blocks_for_status[k])
                                  /\ _to_minutes(blocks_for_status[k].open) > now}}
        IN  result_get(open_now, "opens_in_min") = IF fut = {} THEN None ELSE Some(Least(fut))

\* C4: when the status is open for a block with last-order times, the
\* deadline is the minimum of the present times; lo_in_min is null when the
\* deadline lies in the block's window before now, and when it is not null it
\* is the forward distance from now to the deadline, at most closes_in_min.
C4_LoInIsUpcomingDeadline ==
    (ev_pc = "returned" /\ open_now.status = "open" /\ open_now.segment.last_order # None) =>
        LET o == _to_minutes(open_now.segment.start)
            c == _to_minutes(open_now.segment.end)
            now == NowOf(local_now)
            lo == open_now.segment.last_order[1]
            deadline == Least({_to_minutes(lo[k]) : k \in DOMAIN lo})
            passed == /\ (deadline - o) % MinutesPerDay < (now - o) % MinutesPerDay
                      /\ (deadline - o) % MinutesPerDay <= ((c - o - 1) % MinutesPerDay) + 1
                      /\ ~(o = c /\ deadline = o)
        IN  (o \in MinuteOfDay /\ c \in MinuteOfDay) =>
                /\ passed => open_now.lo_in_min = None
                /\ open_now.lo_in_min # None =>
                       /\ open_now.lo_in_min[1] = (deadline - now) % MinutesPerDay
                       /\ open_now.lo_in_min[1] <= open_now.closes_in_min[1]

\* the hour of "H:MM" as written
HourOf(t) == int(str_split(t, ":")[1])

\* C5: every block of parse_time_ranges has open and close in 0..1439 and
\* crosses_midnight true iff close <= open; a range with an hour outside
\* 0..24 yields no block.
C5_BlocksAreMinutesOfDay ==
    \A i \in 1..Len(blocks) :
        /\ _to_minutes(blocks[i].open) \in MinuteOfDay
        /\ _to_minutes(blocks[i].close) \in MinuteOfDay
        /\ blocks[i].crosses_midnight <=> (_to_minutes(blocks[i].close) <= _to_minutes(blocks[i].open))
        /\ HourOf(blocks[i].open) \in 0..24
        /\ HourOf(blocks[i].close) \in 0..24

\* the forms of a title chunk that section 4.1 resolves by rules 1 to 3
Blanks == {<<>>, <<" ">>}
RangeDashes == {<<"-">>, <<"U+2013">>, <<"U+2014">>}
RangeSeparators == {l \o x \o r : l \in Blanks, x \in RangeDashes, r \in Blanks}
                   \cup {<<" ","t","o"," ">>}
IsDayName(c) == str_lower(c) \in DOMAIN DAY_ALIASES
IsSpecialPhrase(c) == str_lower(c) \in DOMAIN SPECIAL_KEYS
IsDayRange(c) ==
    \E a \in DOMAIN DAY_ALIASES, b \in DOMAIN DAY_ALIASES, x \in RangeSeparators :
        str_lower(c) = a \o x \o b
IsOpaque(c) == ~IsDayName(c) /\ ~IsSpecialPhrase(c) /\ ~IsDayRange(c)

\* C6: a chunk that is no exact day name, no exact special phrase and no
\* Day-Day range of two day names is recorded verbatim in the opaque-title
\* set and adds no weekday.
C6_OpaqueChunkRecorded ==
    [][(dn_pc = "loop" /\ ci <= Len(chunks) /\ ci' = ci + 1 /\ IsOpaque(chunks[ci]))
          => (chunks[ci] \in special'.raw_titles /\ weekday_days' = weekday_days)]_vars

\* the days from index ia to index ib along the cyclic order mon..sun
CyclicRun(ia, ib) == [k \in 1..(((ib - ia) % 7) + 1) |-> DAY_ORDER[((ia + k - 1) % 7) + 1]]
TokenIndex(tok) == DayIndex(DAY_ALIASES[str_lower(tok)])

\* C7: the title "a-b" of two day names expands to exactly the days from a
\* to b inclusive along the cyclic order, wrapping when b precedes a: it has
\* ((index(b) - index(a)) mod 7) + 1 days and no day twice.
C7_RangeExpandsCyclically ==
    dn_pc = "returned" =>
        \A a \in TitleDayTokens, b \in TitleDayTokens, x \in TitleSeps :
            title = a \o x \o b =>
                /\ weekday_days = CyclicRun(TokenIndex(a), TokenIndex(b))
                /\ Len(weekday_days) = ((TokenIndex(b) - TokenIndex(a)) % 7) + 1
                /\ \A i, j \in 1..Len(weekday_days) :
                       weekday_days[i] = weekday_days[j] => i = j

\* "Sat-Mon" gives sat, sun, mon
C7_Witness ==
    /\ dn_pc = "returned"
    /\ title = <<"S","a","t","-","M","o","n">>
    /\ weekday_days = <<sat, sun, mon>>

\* C8: the carried blocks come after today's own blocks, and the scan
\* returns on the first block of the list whose window contains now; so when
\* one of today's blocks contains now the returned segment and closes_in_min
\* are those of today's earliest-listed such block, also when a carried block
\* contains now.
C8_FirstMatchTodayFirst ==
    ev_pc = "returned" =>
        LET now == NowOf(local_now)
            bs == blocks_for_status
            hit == {i \in 1..Len(bs) : Contains(bs[i], now)}
            today == {i \in hit : ~IsCarried(bs[i])}
            first == IF today # {} THEN Least(today) ELSE Least(hit)
        IN  /\ \A i, j \in 1..Len(bs) : (i < j /\ IsCarried(bs[i])) => IsCarried(bs[j])
            /\ hit = {} <=> open_now.status = "closed"
            /\ hit # {} =>
                  /\ open_now.segment = [start |-> bs[first].open, end |-> bs[first].close,
                                         last_order |-> bs[first].last_order]
                  /\ (_to_minutes(bs[first].open) \in MinuteOfDay
                      /\ _to_minutes(bs[first].close) \in MinuteOfDay)
                        => open_now.closes_in_min
                               = Some(ForwardDistance(now, _to_minutes(bs[first].close)))

\* one of today's blocks and a different carried block both contain now
C8_Witness ==
    /\ ev_pc = "returned" /\ open_now.status = "open"
    /\ \E i, j \in 1..Len(blocks_for_status) :
        /\ ~IsCarried(blocks_for_status[i]) /\ IsCarried(blocks_for_status[j])
        /\ Contains(blocks_for_status[i], NowOf(local_now))
        /\ Contains(blocks_for_status[j], NowOf(local_now))
        /\ blocks_for_status[i].close # blocks_for_status[j].close
        /\ open_now.segment.end = blocks_for_status[i].close

\* C9: after the entry list is processed, policies holds every opaque title
\* found in the title of any entry, explicit-closed entries included.
C9_PoliciesHoldOpaqueTitles ==
    sb_pc = "returned" =>
        \A j \in 1..Len(hours_raw) :
            \A c \in _split_and_normalize_days(hours_raw[j].title).special.raw_titles :
                \E k \in 1..Len(exceptions.policies) : exceptions.policies[k] = c

\* the block a marker at text position pos belongs to: the range with the
\* greatest start not after pos, 0 when pos is before the first range
Owner(pos) ==
    LET before == {j \in 1..Len(ranges) : ranges[j].start <= pos}
    IN  IF before = {} THEN 0 ELSE CHOOSE j \in before : \A k \in before : k <= j
\* the kind of a marker: drinks, food or generic
MarkerKind(m) ==
    IF m.kind = None THEN "generic"
    ELSE IF m.kind[1] \in {W_drink, W_drink \o <<"s">>} THEN "drinks"
    ELSE "food"
\* the markers of kind k that belong to block j
Markers(j, k) == {i \in 1..Len(los) : Owner(los[i].pos) = j /\ MarkerKind(los[i]) = k}
LoKinds == {"generic", "food", "drinks"}

\* C10: a marker belongs to exactly one block, the range with the greatest
\* start not after the marker, and to none when it precedes the first range;
\* a block's last_order holds, for each kind, the time of the last marker of
\* that kind belonging to it, holds no other kind, and is null without one.
C10_MarkersAttachToNearestRange ==
    \A j \in 1..Len(blocks) :
        /\ (\A k \in LoKinds : Markers(j, k) = {}) <=> blocks[j].last_order = None
        /\ blocks[j].last_order # None =>
              \A k \in LoKinds :
                  IF Markers(j, k) = {} THEN k \notin DOMAIN blocks[j].last_order[1]
                  ELSE /\ k \in DOMAIN blocks[j].last_order[1]
                       /\ blocks[j].last_order[1][k]
                              = los[CHOOSE i \in Markers(j, k) : \A n \in Markers(j, k) : n <= i].t

\* a marker before the first range, two markers of one kind in one window,
\* two kinds in one window, and a block without a marker
C10_Witness ==
    /\ tr_pc = "returned" /\ Len(blocks) = 2
    /\ \E i \in 1..Len(los) : Owner(los[i].pos) = 0
    /\ blocks[1].last_order = None
    /\ Cardinality(Markers(2, "generic")) = 2
    /\ \E i, n \in Markers(2, "generic") : i < n /\ los[i].t # los[n].t
                                              /\ blocks[2].last_order[1]["generic"] = los[n].t

\* the exception list of a tag, empty when the tag has none yet
ExceptionList(exc, tag) == IF tag \in DOMAIN exc THEN exc[tag] ELSE <<>>
\* a step of the loop that processes entry ei, which is not explicit-closed
OpenEntryStep ==
    /\ sb_pc = "loop" /\ ei <= Len(hours_raw) /\ ei' = ei + 1
    /\ ~ExplicitClosed(hours_raw[ei].dtl)
\* what such a step does for the title's days ds and flags fs and the blocks bs
OpenEntryEffect(ds, fs, bs) ==
    /\ \A d \in Days :
           With(Cardinality({i \in 1..Len(ds) : ds[i] = d}), LAMBDA named :
               /\ named = 0 => weekly'[d] = weekly[d]
               /\ (named = 1 /\ weekly[d] # Closed)
                      => weekly'[d] = DayBlocks(weekly[d].blocks \o bs))
    /\ \A tag \in SpecialTags :
           IF tag \in fs
           THEN /\ tag \in DOMAIN exceptions'
                /\ exceptions'[tag] = ExceptionList(exceptions, tag) \o bs
           ELSE ExceptionList(exceptions', tag) = ExceptionList(exceptions, tag)

\* C11: processing a non-closed entry leaves every weekday its title does
\* not name unchanged (all seven when the title holds only special phrases),
\* appends the entry's blocks to the exception list of each special tag the
\* title flags and leaves the lists of the other tags unchanged; a weekday
\* named once that is not Closed receives exactly the entry's blocks.
C11_SpecialFlagsLeaveWeekdays ==
    [][OpenEntryStep =>
          With(_split_and_normalize_days(hours_raw[ei].title), LAMBDA n :
              OpenEntryEffect(n.days, n.special.flags, parse_time_ranges(hours_raw[ei].dtl)))
      ]_vars

\* the special tags a title flags
TitleFlags(t) == _split_and_normalize_days(t).special.flags

\* a title of two special phrases only has put its blocks into both lists
\* and into no weekday, and a later mixed title has added blocks to tue only
C11_Witness ==
    /\ sb_pc = "returned" /\ Len(hours_raw) = 2
    /\ hours_raw[1].title = T_Holidays
    /\ TitleFlags(hours_raw[2].title) = {"public_holiday"}
    /\ TitleDays(hours_raw[2].title) = {tue}
    /\ parse_time_ranges(hours_raw[1].dtl) # <<>>
    /\ parse_time_ranges(hours_raw[2].dtl) # <<>>
    /\ \A d \in Days \ {tue} : weekly[d] = DayBlocks(<<>>)
    /\ weekly[tue] = DayBlocks(parse_time_ranges(hours_raw[2].dtl))
    /\ exceptions["day_before_public_holiday"] = parse_time_ranges(hours_raw[1].dtl)
    /\ exceptions["public_holiday"]
           = parse_time_ranges(hours_raw[1].dtl) \o parse_time_ranges(hours_raw[2].dtl)

\* C12: a block carried over from the previous day makes the status open
\* only in its after-midnight half: whenever the block the scan returns on
\* is a carried block, now is before that block's close; so with today's
\* schedule Closed or empty the status is closed at a now that is at or
\* after the carried block's open.
C12_CarriedOpensAfterMidnightOnly ==
    (ev_pc = "returned" /\ open_now.status = "open") =>
        LET now == NowOf(local_now)
            bs == blocks_for_status
            first == Least({i \in 1..Len(bs) : Contains(bs[i], now)})
        IN  IsCarried(bs[first]) => now < _to_minutes(bs[first].close)

====
